---- MODULE Spec2Model ----
(***************************************************************************)
(* Model of vprof/runner.py: the module-level baseline measurement, the    *)
(* profiler registry, run_profilers (validation and ordered execution) and *)
(* run (result extraction, sanitization and transmission).                 *)
(*                                                                         *)
(* Python strings are sequences of one-character strings, dicts are        *)
(* functions over their keys, an OrderedDict is a sequence of              *)
(* [key, val] entries, and Python values are the strings of PyValues.      *)
(***************************************************************************)
EXTENDS Naturals, Sequences, FiniteSets

VARIABLES
    pc,               \* position of the interpreter in runner.py
    entry,            \* which public function the caller invoked
    initial_rss_size, \* builtins.initial_rss_size ("unset" = no such attribute)
    rss_reads,        \* number of memory_info() measurements taken so far
    loads,            \* observed: executions of the module body so far
    default_kwargs,   \* keys of the dict that is the default of run's kwargs
    run_object,       \* run_profilers' run_object argument
    prof_config,      \* run_profilers' prof_config argument
    verbose,          \* run_profilers' verbose argument
    k,                \* loop position in present_profilers / in run_stats
    curr_profiler,    \* the profiler constructed at line 70
    run_stats,        \* the OrderedDict of line 67 / line 91
    result,           \* run's local of line 93
    post_data,        \* run's local of line 99
    exc,              \* the exception that left the invoked function
    ret_stats,        \* the mapping run_profilers returned, as returned
    ret_value,        \* the value run returned to its caller
    constructed,      \* observed: constructor calls, in order
    ran,              \* observed: profiler.run() calls, in order
    printed,          \* observed: lines written by print()
    requests          \* observed: urlopen() calls, in order

procVars == <<initial_rss_size, rss_reads, loads, default_kwargs>>
argVars  == <<entry, run_object, prof_config, verbose>>
rpVars   == <<curr_profiler, run_stats>>
runVars  == <<result, post_data>>
outVars  == <<exc, ret_stats, ret_value>>
obsVars  == <<constructed, ran, printed, requests>>
vars     == <<pc, k, procVars, argVars, rpVars, runVars, outVars, obsVars>>

(***************************************************************************)
(* Bounds and input domains.                                               *)
(***************************************************************************)
MaxLen == 4

\* longest configuration string, and most executions of the module body,
\* in the runs that follow the process over several loads and invocations
MaxShortLen == 2
MaxLoads == 2

\* characters a caller may put in a configuration string
Alphabet == {"m", "c", "h", "p", "x", "y"}

Configs == UNION {[1..n -> Alphabet] : n \in 0..MaxLen}

ShortConfigs == UNION {[1..n -> Alphabet] : n \in 0..MaxShortLen}

\* Python values a profiled callable may return; None and 0 are falsy
PyValues == {"None", "0", "1", "2"}

Truthy(v) == v \notin {"None", "0"}

\* the ResultRecords a profiler's run() may return: with or without "result"
Records ==
    {[totalEvents |-> "1"]}
        \cup {[totalEvents |-> "1", result |-> v] : v \in PyValues}

\* values of a profiler-specific field: a str, a list of ints, a tuple of ints
Containers ==
    { [tag |-> "str", items |-> <<"a">>],
      [tag |-> "list", items |-> <<"1", "2">>],
      [tag |-> "tuple", items |-> <<"1", "2">>] }

\* ResultRecords of a callable target, with or without such a field
RichRecords ==
    {[totalEvents |-> "1", result |-> "1"]}
        \cup {[totalEvents |-> "1", codeEvents |-> v, result |-> "1"] :
                 v \in Containers}

NoProfiler == [opt |-> "", cls |-> "", target |-> [kind |-> "none"]]
NoError    == [type |-> "none", msg |-> <<>>]

(***************************************************************************)
(* The registry, lines 22-27.                                              *)
(***************************************************************************)
_PROFILERS ==
    << [opt |-> "m", cls |-> "MemoryProfiler"],
       [opt |-> "c", cls |-> "FlameGraphProfiler"],
       [opt |-> "h", cls |-> "CodeHeatmapProfiler"],
       [opt |-> "p", cls |-> "Profiler"] >>

(***************************************************************************)
(* Python built-ins used by the code.                                      *)
(***************************************************************************)
\* set(s): the distinct characters of a string
SetOf(s) == {s[i] : i \in 1..Len(s)}

\* 'pre%spost' % s
Format(pre, s, post) == <<pre>> \o s \o (IF post = "" THEN <<>> ELSE <<post>>)

\* od[key] = val on an OrderedDict: a known key keeps its place, a new one
\* goes last
OD_Set(od, key, val) ==
    IF \E i \in 1..Len(od) : od[i].key = key
    THEN [i \in 1..Len(od) |->
            IF od[i].key = key THEN [key |-> key, val |-> val] ELSE od[i]]
    ELSE Append(od, [key |-> key, val |-> val])

\* list(od): the keys in iteration order
Keys(od) == [i \in 1..Len(od) |-> od[i].key]

\* del d[field] on a dict that has the field
DelField(d, field) == [f \in (DOMAIN d) \ {field} |-> d[f]]

(***************************************************************************)
(* run_profilers, lines 58-65: validation.                                 *)
(***************************************************************************)
\* variant: the comparison of line 58 off by one
IsAmbiguousOffByOne(cfg) == Len(cfg) > Cardinality(SetOf(cfg)) + 1

\* variant: the comparison of line 58 not strict
IsAmbiguousNotStrict(cfg) == Len(cfg) >= Cardinality(SetOf(cfg))

\* line 58
IsAmbiguous(cfg) == Len(cfg) > Cardinality(SetOf(cfg))

\* line 62
available_profilers == {_PROFILERS[i].opt : i \in 1..Len(_PROFILERS)}

\* variant: the loop of lines 63-65 reports the last unknown option
LastBadIndex(cfg) ==
    IF \E i \in 1..Len(cfg) : cfg[i] \notin available_profilers
    THEN CHOOSE i \in 1..Len(cfg) :
            /\ cfg[i] \notin available_profilers
            /\ \A j \in (i + 1)..Len(cfg) : cfg[j] \in available_profilers
    ELSE 0

\* lines 63-65: the option at which the loop raises, 0 when it runs through
FirstBadIndex(cfg) ==
    IF \E i \in 1..Len(cfg) : cfg[i] \notin available_profilers
    THEN CHOOSE i \in 1..Len(cfg) :
            /\ cfg[i] \notin available_profilers
            /\ \A j \in 1..(i - 1) : cfg[j] \in available_profilers
    ELSE 0

\* lines 58-65 as a whole: the exception raised, NoError when none is
Validate(cfg) ==
    IF IsAmbiguous(cfg)
    THEN [type |-> "AmbiguousConfigurationError",
          msg  |-> Format("Profiler configuration ", cfg, " is ambiguous")]
    ELSE IF FirstBadIndex(cfg) # 0
    THEN [type |-> "BadOptionError",
          msg  |-> Format("Unknown option: ", <<cfg[FirstBadIndex(cfg)]>>, "")]
    ELSE NoError

(***************************************************************************)
(* run_profilers, line 68: the registry entries whose code is requested,   *)
(* in registry order.                                                      *)
(***************************************************************************)
Requested(e, cfg) == e.opt \in SetOf(cfg)

\* variant: the requested profilers in the order the configuration names them
present_in_config_order(cfg) ==
    [i \in 1..Len(cfg) |->
        CHOOSE e \in {_PROFILERS[j] : j \in 1..Len(_PROFILERS)} : e.opt = cfg[i]]

present_profilers(cfg) == SelectSeq(_PROFILERS, LAMBDA e : Requested(e, cfg))

(***************************************************************************)
(* run, lines 99-100: json.dumps, str.encode and gzip.compress.  JSON text *)
(* is a sequence of tokens.                                                *)
(***************************************************************************)
\* the order in which a record's fields were inserted by the profiler
FieldOrder == <<"totalEvents", "codeEvents", "result">>

RECURSIVE Join(_)
\* ', '.join(parts), each part a token sequence
Join(parts) ==
    IF Len(parts) = 0 THEN <<>>
    ELSE IF Len(parts) = 1 THEN parts[1]
    ELSE parts[1] \o <<", ">> \o Join(Tail(parts))

\* a Python string as a JSON string
JsonString(str) == <<"\"", str, "\"">>

\* a Python scalar as JSON: None becomes null, an int prints as itself
JsonValue(v) == IF v = "None" THEN <<"null">> ELSE <<v>>

\* a str, list or tuple as JSON: a list and a tuple both print as an array
JsonContainer(v) ==
    IF v.tag = "str" THEN JsonString(v.items[1])
    ELSE <<"[">>
           \o Join([i \in 1..Len(v.items) |-> JsonValue(v.items[i])])
           \o <<"]">>

\* the value of field f of a ResultRecord as JSON
JsonField(f, v) ==
    IF f = "codeEvents" THEN JsonContainer(v) ELSE JsonValue(v)

\* a ResultRecord (a dict) as a JSON object
JsonRecord(d) ==
    LET fs == SelectSeq(FieldOrder, LAMBDA f : f \in DOMAIN d)
    IN  <<"{">>
          \o Join([i \in 1..Len(fs) |->
                    JsonString(fs[i]) \o <<": ">> \o JsonField(fs[i], d[fs[i]])])
          \o <<"}">>

\* variant: json.dumps(run_stats, sort_keys=True)
json_dumps_sorted(od) ==
    LET ks == SelectSeq(<<"c", "h", "m", "p">>,
                        LAMBDA c : \E i \in 1..Len(od) : od[i].key = c)
        At(c) == od[CHOOSE i \in 1..Len(od) : od[i].key = c].val
    IN  <<"{">>
          \o Join([i \in 1..Len(ks) |->
                    JsonString(ks[i]) \o <<": ">> \o JsonRecord(At(ks[i]))])
          \o <<"}">>

\* json.dumps(run_stats): an object keyed by code, in the mapping's order
json_dumps(od) ==
    <<"{">>
      \o Join([i \in 1..Len(od) |->
                JsonString(od[i].key) \o <<": ">> \o JsonRecord(od[i].val)])
      \o <<"}">>

\* str.encode('utf-8') of ASCII text: one byte per character
encode_utf8(text) == [bytes |-> text]

\* gzip.compress: a gzip member holding the deflated bytes
gzip_compress(b) == [gzip |-> b.bytes]

\* the inverses a receiver applies to the body of the request
gzip_decompress(z) == [bytes |-> z.gzip]

decode_utf8(b) == b.bytes

RECURSIVE ParseValue(_, _), ParseItems(_, _, _), ParseMembers(_, _, _)
\* the JSON value that starts at token i of text t, and the token after it:
\* an object as the sequence of its members, in the order of the text
ParseValue(t, i) ==
    IF t[i] = "{"
    THEN IF t[i + 1] = "}" THEN [val |-> <<>>, next |-> i + 2]
         ELSE ParseMembers(t, i + 1, <<>>)
    ELSE IF t[i] = "["
    THEN IF t[i + 1] = "]"
         THEN [val |-> [tag |-> "list", items |-> <<>>], next |-> i + 2]
         ELSE ParseItems(t, i + 1, <<>>)
    ELSE IF t[i] = "\""
    THEN [val |-> [tag |-> "str", items |-> <<t[i + 1]>>], next |-> i + 3]
    ELSE IF t[i] = "null" THEN [val |-> "None", next |-> i + 1]
    ELSE [val |-> t[i], next |-> i + 1]

\* the items of an array from token i on: an array loads as a list
ParseItems(t, i, acc) ==
    LET e == ParseValue(t, i)
        items == Append(acc, e.val)
    IN  IF t[e.next] = ", " THEN ParseItems(t, e.next + 1, items)
        ELSE [val |-> [tag |-> "list", items |-> items], next |-> e.next + 1]

\* the members of an object from token i on: "key": value
ParseMembers(t, i, acc) ==
    LET e == ParseValue(t, i + 4)
        members == Append(acc, [key |-> t[i + 1], val |-> e.val])
    IN  IF t[e.next] = ", " THEN ParseMembers(t, e.next + 1, members)
        ELSE [val |-> members, next |-> e.next + 1]

\* json.loads(text)
json_loads(text) == ParseValue(text, 1).val

\* the members of a loaded object as a dict
AsDict(members) ==
    [f \in {members[j].key : j \in 1..Len(members)} |->
        members[CHOOSE j \in 1..Len(members) : members[j].key = f].val]

\* a loaded payload as a mapping from code to ResultRecord, in its order
AsRunStats(obj) ==
    [i \in 1..Len(obj) |-> [key |-> obj[i].key, val |-> AsDict(obj[i].val)]]

\* 'http://%s:%s' % (host, port), line 101
Url(host, port) == <<"http://", host, ":", port>>

(***************************************************************************)
(* Inputs of the public functions.                                         *)
(***************************************************************************)
\* (args, kwargs) of run: both left to their defaults, or both given
ArgChoices == {<<"()", "DEFAULT_KWARGS">>, <<"(1, 2)", "caller_kwargs">>}

\* run's host and port, left to their defaults
DefaultHost == "localhost"
DefaultPort == "8000"

\* control is with the caller, between two invocations
Callable == pc = "idle"

(***************************************************************************)
(* Execution of the module body: lines 11-12 take the baseline unless      *)
(* builtins has one, line 77 creates run with a new, empty default dict.   *)
(* The import system runs the body of a module under that module's lock,   *)
(* one execution at a time.                                                *)
(***************************************************************************)
\* the value of the n-th measurement of the process's RSS
Measure(n) == IF n = 1 THEN "rss1" ELSE "rss2"

\* variant: line 12 without the test of line 11
ModuleBodyUnguarded ==
    /\ initial_rss_size' = Measure(rss_reads + 1)
    /\ rss_reads' = rss_reads + 1
    /\ loads' = loads + 1
    /\ default_kwargs' = {}

\* variant: the module body takes no baseline
ModuleBodyWithoutBaseline ==
    /\ UNCHANGED <<initial_rss_size, rss_reads>>
    /\ loads' = loads + 1
    /\ default_kwargs' = {}

ModuleBody ==
    /\ IF initial_rss_size = "unset"
       THEN /\ initial_rss_size' = Measure(rss_reads + 1)
            /\ rss_reads' = rss_reads + 1
       ELSE UNCHANGED <<initial_rss_size, rss_reads>>
    /\ loads' = loads + 1
    /\ default_kwargs' = {}

\* the first import of the module
ImportModule ==
    /\ pc = "import"
    /\ ModuleBody
    /\ pc' = "idle"
    /\ UNCHANGED <<k, argVars, rpVars, runVars, outVars, obsVars>>

\* the module body is executed again (importlib.reload), between two
\* invocations
ReloadModule ==
    /\ pc = "idle"
    /\ loads < MaxLoads
    /\ ModuleBody
    /\ UNCHANGED <<pc, k, argVars, rpVars, runVars, outVars, obsVars>>

(***************************************************************************)
(* A caller invokes run (line 91) or run_profilers (line 45).              *)
(***************************************************************************)
\* the state every invocation starts from
Enter(e, obj, cfg, v) ==
    /\ entry' = e
    /\ run_object' = obj
    /\ prof_config' = cfg
    /\ verbose' = v
    /\ pc' = "validate"
    /\ k' = 0
    /\ curr_profiler' = NoProfiler
    /\ run_stats' = <<>>
    /\ result' = "None"
    /\ post_data' = [gzip |-> <<>>]
    /\ exc' = NoError
    /\ ret_stats' = <<>>
    /\ ret_value' = "None"
    /\ constructed' = <<>>
    /\ ran' = <<>>
    /\ printed' = <<>>
    /\ requests' = <<>>
    /\ UNCHANGED procVars

\* line 91: run builds the target triple and calls run_profilers, verbose
\* left to its default
CallRun(a, options) ==
    /\ Enter("run",
             [kind |-> "call", func |-> "func", args |-> a[1], kwargs |-> a[2]],
             options, FALSE)

\* run_profilers called directly, here on a process reference
CallRunProfilers(cfg, v) ==
    /\ Enter("run_profilers", [kind |-> "process", pid |-> "pid"], cfg, v)

\* the caller's choice of arguments
InvokeRun ==
    /\ Callable
    /\ \E a \in ArgChoices, options \in Configs : CallRun(a, options)

InvokeRunProfilers ==
    /\ Callable
    /\ \E cfg \in Configs, v \in BOOLEAN : CallRunProfilers(cfg, v)

\* the same, with short configuration strings
InvokeRunShort ==
    /\ Callable
    /\ \E a \in ArgChoices, options \in ShortConfigs : CallRun(a, options)

InvokeRunProfilersShort ==
    /\ Callable
    /\ \E cfg \in ShortConfigs, v \in BOOLEAN : CallRunProfilers(cfg, v)

(***************************************************************************)
(* run_profilers, lines 58-74.                                             *)
(***************************************************************************)
\* variant: the constructor is handed the callable alone
NewProfilerOfCallable(e, obj) ==
    [opt |-> e.opt, cls |-> e.cls, target |-> [kind |-> "callable"]]

\* prof(run_object), line 70
NewProfiler(e, obj) == [opt |-> e.opt, cls |-> e.cls, target |-> obj]

\* the exception of a failing profiler
ProfilerError(opt) == [type |-> "ProfilerError", msg |-> <<opt>>]

\* line 69: the generator of line 68 has another entry
MoreProfilers == k <= Len(present_profilers(prof_config))

\* variant: the configuration is only checked once the first requested
\* profiler has been constructed
ValidationFailsAfterConstruct ==
    /\ pc = "validate"
    /\ Validate(prof_config) # NoError
    /\ exc' = Validate(prof_config)
    /\ constructed' =
          IF Len(present_profilers(prof_config)) > 0
          THEN Append(constructed,
                      NewProfiler(present_profilers(prof_config)[1], run_object))
          ELSE constructed
    /\ pc' = "raised"
    /\ UNCHANGED <<k, procVars, argVars, rpVars, runVars, ret_stats, ret_value,
                   ran, printed, requests>>

\* lines 58-65 raise
ValidationFails ==
    /\ pc = "validate"
    /\ Validate(prof_config) # NoError
    /\ exc' = Validate(prof_config)
    /\ pc' = "raised"
    /\ UNCHANGED <<k, procVars, argVars, rpVars, runVars, ret_stats, ret_value,
                   obsVars>>

\* lines 58-68 pass
ValidationPasses ==
    /\ pc = "validate"
    /\ Validate(prof_config) = NoError
    /\ run_stats' = <<>>
    /\ k' = 1
    /\ pc' = "loop"
    /\ UNCHANGED <<procVars, argVars, curr_profiler, runVars, outVars, obsVars>>

\* lines 69-72: the next requested profiler is constructed
Construct ==
    /\ pc = "loop"
    /\ MoreProfilers
    /\ LET e == present_profilers(prof_config)[k]
       IN  /\ curr_profiler' = NewProfiler(e, run_object)
           /\ constructed' = Append(constructed, NewProfiler(e, run_object))
           /\ printed' = IF verbose
                         THEN Append(printed, Format("Running ", <<e.cls>>, "..."))
                         ELSE printed
    /\ pc' = "run"
    /\ UNCHANGED <<k, procVars, argVars, run_stats, runVars, outVars, ran,
                   requests>>

\* line 70: the constructor raises
ConstructFails ==
    /\ pc = "loop"
    /\ MoreProfilers
    /\ LET e == present_profilers(prof_config)[k]
       IN  /\ constructed' = Append(constructed, NewProfiler(e, run_object))
           /\ exc' = ProfilerError(e.opt)
    /\ pc' = "raised"
    /\ UNCHANGED <<k, procVars, argVars, rpVars, runVars, ret_stats, ret_value,
                   ran, printed, requests>>

\* line 73: run() returns rec, having added a key to the kwargs dict of its
\* target, which is the default dict of run
ProfilerRunMutatesKwargs(rec) ==
    /\ pc = "run"
    /\ curr_profiler.target.kind = "call"
    /\ curr_profiler.target.kwargs = "DEFAULT_KWARGS"
    /\ default_kwargs' = default_kwargs \cup {"added"}
    /\ ran' = Append(ran, curr_profiler.opt)
    /\ run_stats' = OD_Set(run_stats, curr_profiler.opt, rec)
    /\ k' = k + 1
    /\ pc' = "loop"
    /\ UNCHANGED <<initial_rss_size, rss_reads, loads, argVars, curr_profiler,
                   runVars, outVars, constructed, printed, requests>>

\* variant: the record run() returns is dropped
ProfilerRunNotStored(rec) ==
    /\ pc = "run"
    /\ ran' = Append(ran, curr_profiler.opt)
    /\ k' = k + 1
    /\ pc' = "loop"
    /\ UNCHANGED <<procVars, argVars, rpVars, runVars, outVars, constructed,
                   printed, requests>>

\* line 73: run() returns rec, which is stored under the profiler's code
ProfilerRun(rec) ==
    /\ pc = "run"
    /\ ran' = Append(ran, curr_profiler.opt)
    /\ run_stats' = OD_Set(run_stats, curr_profiler.opt, rec)
    /\ k' = k + 1
    /\ pc' = "loop"
    /\ UNCHANGED <<procVars, argVars, curr_profiler, runVars, outVars,
                   constructed, printed, requests>>

\* variant: a failing run() is caught and the loop goes on
ProfilerRunFailureSwallowed ==
    /\ pc = "run"
    /\ ran' = Append(ran, curr_profiler.opt)
    /\ k' = k + 1
    /\ pc' = "loop"
    /\ UNCHANGED <<procVars, argVars, rpVars, runVars, outVars, constructed,
                   printed, requests>>

\* line 73: run() raises
ProfilerRunFails ==
    /\ pc = "run"
    /\ ran' = Append(ran, curr_profiler.opt)
    /\ exc' = ProfilerError(curr_profiler.opt)
    /\ pc' = "raised"
    /\ UNCHANGED <<k, procVars, argVars, rpVars, runVars, ret_stats, ret_value,
                   constructed, printed, requests>>

\* line 74: the loop is over and run_stats is returned, to the outside
\* caller or to run, which goes on with line 93.  ret_stats keeps the
\* mapping as it was when it was returned.
ReturnStats ==
    /\ pc = "loop"
    /\ ~MoreProfilers
    /\ ret_stats' = run_stats
    /\ IF entry = "run"
       THEN /\ result' = "None"
            /\ k' = 1
            /\ pc' = "extract"
       ELSE /\ pc' = "done"
            /\ UNCHANGED <<k, result>>
    /\ UNCHANGED <<procVars, argVars, rpVars, post_data, exc, ret_value,
                   obsVars>>

(***************************************************************************)
(* run, lines 93-102.                                                      *)
(***************************************************************************)
\* variant: line 95 as `if result is None`
AccumulateIfNone(res, rec) == IF res = "None" THEN rec.result ELSE res

\* line 95-96: the accumulator after visiting a record that has "result"
Accumulate(res, rec) == IF ~Truthy(res) THEN rec.result ELSE res

\* variant: line 97 indented under the test of line 95, so that only a
\* record whose value is taken loses its "result"
SanitizeConsultedOnly(od, i) ==
    IF ~Truthy(result)
    THEN [j \in 1..Len(od) |->
            IF j = i
            THEN [key |-> od[j].key, val |-> DelField(od[j].val, "result")]
            ELSE od[j]]
    ELSE od

\* line 97 applied to entry i of the mapping
Sanitize(od, i) ==
    [j \in 1..Len(od) |->
        IF j = i THEN [key |-> od[j].key, val |-> DelField(od[j].val, "result")]
        ELSE od[j]]

\* lines 94-97 for the next key of run_stats, whose record has "result"
ExtractStep ==
    /\ pc = "extract"
    /\ k <= Len(run_stats)
    /\ "result" \in DOMAIN run_stats[k].val
    /\ result' = Accumulate(result, run_stats[k].val)
    /\ run_stats' = Sanitize(run_stats, k)
    /\ k' = k + 1
    /\ UNCHANGED <<pc, procVars, argVars, curr_profiler, post_data, outVars,
                   obsVars>>

\* variant: a record without "result" is passed over (pop with a default)
ExtractSkipsMissing ==
    /\ pc = "extract"
    /\ k <= Len(run_stats)
    /\ "result" \notin DOMAIN run_stats[k].val
    /\ k' = k + 1
    /\ UNCHANGED <<pc, procVars, argVars, rpVars, runVars, outVars, obsVars>>

\* lines 96-97 raise KeyError: the record has no "result"
ExtractKeyError ==
    /\ pc = "extract"
    /\ k <= Len(run_stats)
    /\ "result" \notin DOMAIN run_stats[k].val
    /\ exc' = [type |-> "KeyError", msg |-> <<"result">>]
    /\ pc' = "raised"
    /\ UNCHANGED <<k, procVars, argVars, rpVars, runVars, ret_stats, ret_value,
                   obsVars>>

\* variant: lines 99-100 inside the loop of line 94
SerializeInsideLoop ==
    /\ pc = "extract"
    /\ k > 1
    /\ post_data' = gzip_compress(encode_utf8(json_dumps(run_stats)))
    /\ pc' = "send"
    /\ UNCHANGED <<k, procVars, argVars, rpVars, result, outVars, obsVars>>

\* lines 99-100
Serialize ==
    /\ pc = "extract"
    /\ k > Len(run_stats)
    /\ post_data' = gzip_compress(encode_utf8(json_dumps(run_stats)))
    /\ pc' = "send"
    /\ UNCHANGED <<k, procVars, argVars, rpVars, result, outVars, obsVars>>

\* the request urlopen issues, line 101, and whether it went through
Request(data, ok) ==
    [url |-> Url(DefaultHost, DefaultPort), data |-> data, ok |-> ok]

\* lines 101-102: the request succeeds and run returns result
SendOk ==
    /\ pc = "send"
    /\ requests' = Append(requests, Request(post_data, TRUE))
    /\ ret_value' = result
    /\ pc' = "done"
    /\ UNCHANGED <<k, procVars, argVars, rpVars, runVars, exc, ret_stats,
                   constructed, ran, printed>>

\* variant: a failing urlopen is caught and run returns as if it had worked
SendFailureSwallowed ==
    /\ pc = "send"
    /\ requests' = Append(requests, Request(post_data, FALSE))
    /\ ret_value' = result
    /\ pc' = "done"
    /\ UNCHANGED <<k, procVars, argVars, rpVars, runVars, exc, ret_stats,
                   constructed, ran, printed>>

\* variant: a failing urlopen is tried once more
SendFailureRetried ==
    /\ pc = "send"
    /\ Len(requests) < 2
    /\ requests' = Append(requests, Request(post_data, FALSE))
    /\ UNCHANGED <<pc, k, procVars, argVars, rpVars, runVars, outVars,
                   constructed, ran, printed>>

\* line 101: urlopen raises
SendFails ==
    /\ pc = "send"
    /\ requests' = Append(requests, Request(post_data, FALSE))
    /\ exc' = [type |-> "URLError", msg |-> <<>>]
    /\ pc' = "raised"
    /\ UNCHANGED <<k, procVars, argVars, rpVars, runVars, ret_stats, ret_value,
                   constructed, ran, printed>>

(***************************************************************************)
(* The invoked function has returned or raised: control goes back to the   *)
(* caller, and the invocation's locals are gone.                           *)
(***************************************************************************)
BackToCaller ==
    /\ pc \in {"done", "raised"}
    /\ pc' = "idle"
    /\ entry' = "none"
    /\ run_object' = [kind |-> "none"]
    /\ prof_config' = <<>>
    /\ verbose' = FALSE
    /\ k' = 0
    /\ curr_profiler' = NoProfiler
    /\ run_stats' = <<>>
    /\ result' = "None"
    /\ post_data' = [gzip |-> <<>>]
    /\ exc' = NoError
    /\ ret_stats' = <<>>
    /\ ret_value' = "None"
    /\ constructed' = <<>>
    /\ ran' = <<>>
    /\ printed' = <<>>
    /\ requests' = <<>>
    /\ UNCHANGED procVars

(***************************************************************************)
(* The specification.                                                      *)
(***************************************************************************)
Init ==
    /\ pc = "import"
    /\ entry = "none"
    /\ initial_rss_size = "unset"
    /\ rss_reads = 0
    /\ loads = 0
    /\ default_kwargs = {}
    /\ run_object = [kind |-> "none"]
    /\ prof_config = <<>>
    /\ verbose = FALSE
    /\ k = 0
    /\ curr_profiler = NoProfiler
    /\ run_stats = <<>>
    /\ result = "None"
    /\ post_data = [gzip |-> <<>>]
    /\ exc = NoError
    /\ ret_stats = <<>>
    /\ ret_value = "None"
    /\ constructed = <<>>
    /\ ran = <<>>
    /\ printed = <<>>
    /\ requests = <<>>

Next ==
    \/ ImportModule
    \/ InvokeRun
    \/ InvokeRunProfilers
    \/ ValidationFails
    \/ ValidationPasses
    \/ Construct
    \/ ConstructFails
    \/ \E rec \in Records : ProfilerRun(rec)
    \/ ProfilerRunFails
    \/ ReturnStats
    \/ ExtractStep
    \/ ExtractKeyError
    \/ Serialize
    \/ SendOk
    \/ SendFails
    \/ BackToCaller

Spec == Init /\ [][Next]_vars

(***************************************************************************)
(* The process over several executions of the module body and several      *)
(* invocations, with profilers that may write to the kwargs dict they are  *)
(* given; configuration strings are short.                                 *)
(***************************************************************************)
NextProcess ==
    \/ ImportModule
    \/ ReloadModule
    \/ InvokeRunShort
    \/ InvokeRunProfilersShort
    \/ ValidationFails
    \/ ValidationPasses
    \/ Construct
    \/ ConstructFails
    \/ \E rec \in Records : ProfilerRun(rec)
    \/ \E rec \in Records : ProfilerRunMutatesKwargs(rec)
    \/ ProfilerRunFails
    \/ ReturnStats
    \/ ExtractStep
    \/ ExtractKeyError
    \/ Serialize
    \/ SendOk
    \/ SendFails
    \/ BackToCaller

SpecProcess == Init /\ [][NextProcess]_vars

(***************************************************************************)
(* Invocations of run on a callable whose profilers return records with a  *)
(* profiler-specific field; configuration strings are short.               *)
(***************************************************************************)
NextTransport ==
    \/ ImportModule
    \/ InvokeRunShort
    \/ ValidationFails
    \/ ValidationPasses
    \/ Construct
    \/ \E rec \in RichRecords : ProfilerRun(rec)
    \/ ReturnStats
    \/ ExtractStep
    \/ Serialize
    \/ SendOk
    \/ SendFails
    \/ BackToCaller

SpecTransport == Init /\ [][NextTransport]_vars

(***************************************************************************)
(* Vocabulary of the properties.                                           *)
(***************************************************************************)
\* the place of a registered code in the registry
RegIndex(o) == CHOOSE i \in 1..Len(_PROFILERS) : _PROFILERS[i].opt = o

InRegistryOrder(codes) ==
    \A i, j \in 1..Len(codes) : i < j => RegIndex(codes[i]) < RegIndex(codes[j])

RegistryCodes == {"m", "c", "h", "p"}

HasRepeat(cfg) == \E i, j \in 1..Len(cfg) : i # j /\ cfg[i] = cfg[j]

HasUnknown(cfg) == \E i \in 1..Len(cfg) : cfg[i] \notin RegistryCodes

\* an invocation is under way or over, and validation is behind it
Validated == entry # "none" /\ pc # "validate"

\* run_profilers has returned its mapping (to the outside caller or to run)
RunProfilersReturned ==
    /\ entry # "none"
    /\ \/ pc \in {"extract", "send", "done"}
       \/ pc = "raised" /\ exc.type \in {"KeyError", "URLError"}

(***************************************************************************)
(* C1: for every valid configuration, the keys of the mapping              *)
(* run_profilers returns are exactly the requested codes, in registry      *)
(* order, whatever the order of the codes in the configuration string.     *)
(***************************************************************************)
C1_KeyOrderIsRegistryOrder ==
    RunProfilersReturned =>
        /\ InRegistryOrder(Keys(ret_stats))
        /\ SetOf(Keys(ret_stats)) = SetOf(prof_config)

C1_Witness ==
    /\ entry = "run_profilers"
    /\ pc = "done"
    /\ prof_config = <<"c", "m">>
    /\ Keys(ret_stats) = <<"m", "c">>

(***************************************************************************)
(* C2 as stated: every configuration string that contains a code outside   *)
(* the registry is rejected with BadOption naming such a code, also when   *)
(* the string repeats a code.                                              *)
(***************************************************************************)
C2_UnknownCodeAlwaysBadOption ==
    (Validated /\ HasUnknown(prof_config)) =>
        /\ pc = "raised"
        /\ exc.type = "BadOptionError"
        /\ Len(exc.msg) = 2
        /\ exc.msg[2] \in SetOf(prof_config) \ RegistryCodes

(***************************************************************************)
(* C2 amended: every configuration string without a repeated code that     *)
(* contains a code outside the registry is rejected with BadOption, whose  *)
(* message names the first such code of the string.                        *)
(***************************************************************************)
C2_UnknownCodeBadOptionUnlessRepeat ==
    (Validated /\ HasUnknown(prof_config) /\ ~HasRepeat(prof_config)) =>
        /\ pc = "raised"
        /\ exc.type = "BadOptionError"
        /\ \E i \in 1..Len(prof_config) :
              /\ prof_config[i] \notin RegistryCodes
              /\ \A j \in 1..(i - 1) : prof_config[j] \in RegistryCodes
              /\ exc.msg = <<"Unknown option: ", prof_config[i]>>

C2_Witness ==
    /\ pc = "raised"
    /\ prof_config = <<"m", "y", "x">>
    /\ exc = [type |-> "BadOptionError", msg |-> <<"Unknown option: ", "y">>]

(***************************************************************************)
(* C3: every configuration string in which some code occurs more than      *)
(* once, registered or not, is rejected with AmbiguousConfiguration whose  *)
(* message carries that exact string, and no profiler is constructed.      *)
(***************************************************************************)
C3_RepeatIsAmbiguous ==
    (Validated /\ HasRepeat(prof_config)) =>
        /\ pc = "raised"
        /\ exc.type = "AmbiguousConfigurationError"
        /\ exc.msg = <<"Profiler configuration ">> \o prof_config
                        \o <<" is ambiguous">>
        /\ constructed = <<>>

C3_Witness ==
    /\ pc = "raised"
    /\ prof_config = <<"m", "x", "x">>
    /\ exc.type = "AmbiguousConfigurationError"
    /\ SubSeq(exc.msg, 2, Len(exc.msg) - 1) = <<"m", "x", "x">>

(***************************************************************************)
(* More vocabulary.                                                        *)
(***************************************************************************)
Count(seq, x) == Cardinality({i \in 1..Len(seq) : seq[i] = x})

ConstructedCodes == [i \in 1..Len(constructed) |-> constructed[i].opt]

HasResult(rec) == "result" \in DOMAIN rec

\* a constructor or a run() has failed: a profiler was constructed and,
\* with no run() under way, there is no record of it
ProfilerFailed == pc # "run" /\ Len(constructed) > Len(run_stats)

\* the send has started
SendStarted == pc = "send" \/ requests # <<>>

(***************************************************************************)
(* C4 as stated: run returns the "result" of the first entry, in registry  *)
(* order, of the returned stats that has a "result" field, whatever the    *)
(* values are (falsy ones included).                                       *)
(***************************************************************************)
C4_ReturnsFirstResult ==
    (entry = "run" /\ pc = "done"
        /\ \E i \in 1..Len(ret_stats) : HasResult(ret_stats[i].val)) =>
        LET first == CHOOSE i \in 1..Len(ret_stats) :
                        /\ HasResult(ret_stats[i].val)
                        /\ \A j \in 1..(i - 1) : ~HasResult(ret_stats[j].val)
        IN  ret_value = ret_stats[first].val.result

(***************************************************************************)
(* C5: once run is at the transmission step, no entry of the mapping that  *)
(* is serialized and sent has a "result" key: it is gone from the record   *)
(* of every requested profiler, and from the payload.                      *)
(***************************************************************************)
C5_NoResultTransmitted ==
    SendStarted =>
        /\ Len(run_stats) = Cardinality(SetOf(prof_config))
        /\ \A i \in 1..Len(run_stats) : ~HasResult(run_stats[i].val)
        /\ post_data = gzip_compress(encode_utf8(json_dumps(run_stats)))
        /\ "result" \notin SetOf(post_data.gzip)
        /\ \A r \in 1..Len(requests) : requests[r].data = post_data

C5_Witness ==
    /\ Len(requests) = 1
    /\ Keys(run_stats) = <<"m", "c", "p">>
    /\ ret_stats[1].val.result = "1"
    /\ ret_stats[2].val.result = "2"
    /\ ret_stats[3].val.result = "0"

(***************************************************************************)
(* C6: a failing constructor or run() ends the invocation at once with     *)
(* the profiler's error: no profiler later in registry order is            *)
(* constructed or run, no mapping is returned, nothing is extracted and    *)
(* nothing is sent.                                                        *)
(***************************************************************************)
C6_ProfilerFailurePropagates ==
    /\ exc.type = "ProfilerError" => ProfilerFailed
    /\ ProfilerFailed =>
        LET failed == constructed[Len(constructed)].opt
        IN  /\ pc = "raised"
            /\ exc = [type |-> "ProfilerError", msg |-> <<failed>>]
            /\ Len(constructed) = Len(run_stats) + 1
            /\ \A i \in 1..Len(constructed) :
                  RegIndex(constructed[i].opt) <= RegIndex(failed)
            /\ \A i \in 1..Len(ran) : RegIndex(ran[i]) <= RegIndex(failed)
            /\ ret_stats = <<>>
            /\ result = "None"
            /\ ret_value = "None"
            /\ post_data = [gzip |-> <<>>]
            /\ requests = <<>>

C6_Witness ==
    /\ entry = "run"
    /\ pc = "raised"
    /\ prof_config = <<"p", "c", "m">>
    /\ exc = [type |-> "ProfilerError", msg |-> <<"c">>]
    /\ ran = <<"m", "c">>
    /\ Len(run_stats) = 1

(***************************************************************************)
(* C7: an invocation that ends in a configuration error has constructed    *)
(* no profiler, run none, printed nothing and sent nothing.                *)
(***************************************************************************)
C7_ConfigErrorBeforeInstrumentation ==
    (pc = "raised"
        /\ exc.type \in {"AmbiguousConfigurationError", "BadOptionError"}) =>
        /\ constructed = <<>>
        /\ ran = <<>>
        /\ printed = <<>>
        /\ requests = <<>>
        /\ run_stats = <<>>
        /\ curr_profiler = NoProfiler

C7_Witness ==
    /\ pc = "raised"
    /\ exc.type = "BadOptionError"
    /\ prof_config = <<"m", "c", "x">>
    /\ verbose
    /\ constructed = <<>>

(***************************************************************************)
(* C8: in one invocation no profiler is constructed or run twice, no       *)
(* unrequested profiler is constructed, every run() is that of the         *)
(* profiler just constructed, and every constructor receives the           *)
(* invocation's target; once run_profilers has returned, every requested   *)
(* profiler has been constructed once and run once (all four of them for   *)
(* any permutation of "mchp").                                             *)
(***************************************************************************)
C8_EachRequestedProfilerOnce ==
    /\ \A o \in RegistryCodes :
          /\ Count(ConstructedCodes, o) <= 1
          /\ Count(ran, o) <= 1
          /\ o \notin SetOf(prof_config) => Count(ConstructedCodes, o) = 0
    /\ \A i \in 1..Len(constructed) :
          /\ constructed[i].opt \in RegistryCodes
          /\ constructed[i].target = run_object
    /\ Len(ran) <= Len(constructed)
    /\ \A i \in 1..Len(ran) : ran[i] = constructed[i].opt
    /\ RunProfilersReturned =>
          \A o \in SetOf(prof_config) :
              Count(ConstructedCodes, o) = 1 /\ Count(ran, o) = 1

C8_Witness ==
    /\ entry = "run"
    /\ pc = "done"
    /\ prof_config = <<"p", "h", "c", "m">>
    /\ ran = <<"m", "c", "h", "p">>
    /\ Len(constructed) = 4
    /\ \A i \in 1..4 : constructed[i].target.kwargs = "DEFAULT_KWARGS"

(***************************************************************************)
(* C9: the send starts only when every requested profiler has been         *)
(* constructed and run, its record stored and sanitized: no send has       *)
(* started while a profiler is pending or running.                         *)
(***************************************************************************)
C9_SendAfterAllProfilers ==
    SendStarted =>
        /\ pc \in {"send", "done", "raised"}
        /\ curr_profiler.opt = "" \/ curr_profiler.opt = ran[Len(ran)]
        /\ SetOf(ran) = SetOf(prof_config)
        /\ Len(ran) = Len(constructed)
        /\ Keys(run_stats) = ran
        /\ Keys(ret_stats) = ran
        /\ \A i \in 1..Len(run_stats) :
              run_stats[i].val = [totalEvents |-> ret_stats[i].val.totalEvents]

C9_Witness ==
    /\ pc = "send"
    /\ requests = <<>>
    /\ prof_config = <<"h", "m", "c">>
    /\ ran = <<"m", "c", "h">>

(***************************************************************************)
(* C10: a failing send ends run at once with the transport's error: it is  *)
(* the only request of the invocation, nothing is returned, and neither    *)
(* the stats nor the extracted value change.                               *)
(***************************************************************************)
C10_SendFailureSurfaces ==
    /\ []((\E r \in 1..Len(requests) : ~requests[r].ok) =>
            (pc = "raised" /\ exc.type = "URLError" /\ Len(requests) = 1))
    /\ [][(pc = "send" /\ pc' # "send") =>
            \/ requests' = <<Request(post_data, TRUE)>> /\ pc' = "done"
            \/ /\ requests' = <<Request(post_data, FALSE)>>
               /\ pc' = "raised"
               /\ exc'.type = "URLError"
               /\ run_stats' = run_stats
               /\ result' = result
               /\ ret_stats' = ret_stats
               /\ ret_value' = "None"]_vars

C10_Witness ==
    /\ pc = "raised"
    /\ exc.type = "URLError"
    /\ Len(requests) = 1
    /\ ~requests[1].ok
    /\ Len(run_stats) = 2
    /\ result = "2"

(***************************************************************************)
(* C14: the phases of one invocation of run.                               *)
(***************************************************************************)
Phase ==
    CASE pc \in {"import", "idle"} -> "Idle"
      [] pc = "validate"           -> "Validating"
      [] pc \in {"loop", "run"}    -> "Executing"
      [] pc = "extract"            -> "Extracting"
      [] pc = "send"               -> "Transmitting"
      [] pc = "done"               -> "Done"
      [] pc = "raised" ->
            CASE exc.type \in {"AmbiguousConfigurationError", "BadOptionError"}
                                            -> "ConfigError"
              [] exc.type = "ProfilerError" -> "ProfilerError"
              [] exc.type = "URLError"      -> "TransportError"
              [] OTHER                      -> "OtherError"

\* a step of the invocation under way
InvocationStep ==
    \/ ValidationFails
    \/ ValidationPasses
    \/ Construct
    \/ ConstructFails
    \/ \E rec \in Records : ProfilerRun(rec)
    \/ ProfilerRunFails
    \/ ReturnStats
    \/ ExtractStep
    \/ ExtractKeyError
    \/ Serialize
    \/ SendOk
    \/ SendFails

\* the phases that may follow a phase in one step, given the failure
\* states that Extracting may end in
PhaseSuccessors(ph, extractFailures) ==
    CASE ph = "Idle"         -> {"Idle", "Validating"}
      [] ph = "Validating"   -> {"Executing", "ConfigError"}
      [] ph = "Executing"    -> {"Executing", "Extracting", "ProfilerError"}
      [] ph = "Extracting"   -> {"Extracting", "Transmitting"}
                                    \cup extractFailures
      [] ph = "Transmitting" -> {"Done", "TransportError"}
      [] OTHER               -> {"Idle"}

\* at most one request, issued at the end of Transmitting, and an invocation
\* under way can take a step
RunProgress ==
    entry = "run" =>
        /\ Len(requests) <= 1
        /\ requests # <<>> => Phase \in {"Done", "TransportError"}
        /\ Phase \in {"Validating", "Executing", "Extracting", "Transmitting"}
              => ENABLED InvocationStep

\* a step of an invocation of run leads to a phase that may follow
PhaseStep(extractFailures) ==
    (entry = "run" \/ entry' = "run") =>
        Phase' \in PhaseSuccessors(Phase, extractFailures)

(***************************************************************************)
(* C14 as stated: an invocation of run goes through Validating, Executing, *)
(* Extracting, Transmitting and Done in that order, no phase re-entered    *)
(* once left; ConfigError arises only from Validating, ProfilerError only  *)
(* from Executing, TransportError only from Transmitting; at most one      *)
(* request is issued; an invocation under way can always take a step and   *)
(* ends in Done or in one of these three failure states.                   *)
(***************************************************************************)
C14_PhasesThreeFailures == []RunProgress /\ [][PhaseStep({})]_vars

(***************************************************************************)
(* C14 amended: as stated, with a fourth failure state: Extracting may     *)
(* also end in an error of its own (KeyError, a record without "result"),  *)
(* which arises only from Extracting.                                      *)
(***************************************************************************)
C14_PhasesFourFailures ==
    []RunProgress /\ [][PhaseStep({"OtherError"})]_vars

C14_Witness ==
    /\ entry = "run"
    /\ Phase = "Done"
    /\ Len(requests) = 1
    /\ Len(run_stats) = 3

(***************************************************************************)
(* C15: profilers are constructed and run one after the other in registry  *)
(* order: at most one profiler is constructed and not finished, and a      *)
(* profiler is constructed only when the record of every profiler          *)
(* constructed before it has been stored.                                  *)
(***************************************************************************)
C15_StrictlySequential ==
    /\ [](/\ InRegistryOrder(ConstructedCodes)
          /\ Len(constructed) <= Len(run_stats) + 1
          /\ Len(constructed) = Len(run_stats) + 1 => pc \in {"run", "raised"}
          /\ pc = "run" => /\ Len(constructed) = Len(run_stats) + 1
                           /\ Len(ran) = Len(run_stats)
                           /\ curr_profiler = constructed[Len(constructed)]
          /\ \A i \in 1..Len(run_stats) :
                run_stats[i].key = constructed[i].opt)
    /\ [][Len(constructed') > Len(constructed) =>
            /\ Len(constructed') = Len(constructed) + 1
            /\ Len(ran) = Len(constructed)
            /\ Keys(run_stats) = ConstructedCodes]_vars

C15_Witness ==
    /\ pc = "run"
    /\ prof_config = <<"p", "m", "h">>
    /\ Keys(run_stats) = <<"m", "h">>
    /\ curr_profiler.opt = "p"
    /\ ran = <<"m", "h">>

(***************************************************************************)
(* C17: run returns the "result" of the first entry, in registry order,    *)
(* whose "result" is truthy; when no entry's "result" is truthy it         *)
(* returns that of the last entry.                                         *)
(***************************************************************************)
C17_FirstTruthyElseLast ==
    (entry = "run" /\ pc = "done" /\ Len(ret_stats) > 0) =>
        IF \E i \in 1..Len(ret_stats) : Truthy(ret_stats[i].val.result)
        THEN \E i \in 1..Len(ret_stats) :
                /\ Truthy(ret_stats[i].val.result)
                /\ \A j \in 1..(i - 1) : ~Truthy(ret_stats[j].val.result)
                /\ ret_value = ret_stats[i].val.result
        ELSE ret_value = ret_stats[Len(ret_stats)].val.result

C17_Witness ==
    /\ entry = "run"
    /\ pc = "done"
    /\ Keys(ret_stats) = <<"m", "c", "h">>
    /\ ret_stats[1].val.result = "None"
    /\ ret_stats[2].val.result = "0"
    /\ ret_stats[3].val.result = "None"
    /\ ret_value = "None"

(***************************************************************************)
(* C18: when the record of some requested profiler has no "result", run    *)
(* never gets to serialize or send: it ends with KeyError at the first     *)
(* such record, the records before it sanitized, that record and the       *)
(* later ones untouched, nothing sent and nothing returned.                *)
(***************************************************************************)
C18_MissingResultRaises ==
    (entry = "run" /\ RunProfilersReturned
        /\ \E i \in 1..Len(ret_stats) : ~HasResult(ret_stats[i].val)) =>
        LET first == CHOOSE i \in 1..Len(ret_stats) :
                        /\ ~HasResult(ret_stats[i].val)
                        /\ \A j \in 1..(i - 1) : HasResult(ret_stats[j].val)
        IN  /\ pc \in {"extract", "raised"}
            /\ k <= first
            /\ post_data = [gzip |-> <<>>]
            /\ requests = <<>>
            /\ ret_value = "None"
            /\ pc = "raised" =>
                  /\ exc = [type |-> "KeyError", msg |-> <<"result">>]
                  /\ Keys(run_stats) = Keys(ret_stats)
                  /\ \A j \in 1..Len(ret_stats) :
                        run_stats[j].val =
                            IF j < first
                            THEN DelField(ret_stats[j].val, "result")
                            ELSE ret_stats[j].val

C18_Witness ==
    /\ entry = "run"
    /\ pc = "raised"
    /\ exc.type = "KeyError"
    /\ Keys(ret_stats) = <<"m", "c", "h">>
    /\ ~HasResult(run_stats[1].val) /\ HasResult(ret_stats[1].val)
    /\ ~HasResult(ret_stats[2].val)
    /\ HasResult(run_stats[3].val)

(***************************************************************************)
(* C19: the empty configuration string passes validation: no profiler is   *)
(* constructed, run_profilers returns an empty mapping, and run issues     *)
(* exactly one request, whose body is the empty mapping, and returns None  *)
(* when the request goes through.                                          *)
(***************************************************************************)
C19_EmptyConfiguration ==
    (entry # "none" /\ prof_config = <<>>) =>
        /\ exc.type \in {"none", "URLError"}
        /\ constructed = <<>> /\ ran = <<>>
        /\ run_stats = <<>> /\ ret_stats = <<>>
        /\ pc = "done" => entry = "run_profilers" \/ Len(requests) = 1
        /\ pc = "raised" => entry = "run" /\ Len(requests) = 1
        /\ \A r \in 1..Len(requests) :
              /\ requests[r].data = [gzip |-> <<"{", "}">>]
              /\ requests[r].ok => pc = "done" /\ ret_value = "None"

C19_Witness ==
    /\ entry = "run"
    /\ prof_config = <<>>
    /\ pc = "done"
    /\ Len(requests) = 1
    /\ ret_value = "None"

(***************************************************************************)
(* C11 as stated: when run is called without kwargs, the keyword mapping   *)
(* placed in the target is empty and new for that call: nothing an         *)
(* earlier invocation has put into its default mapping is in it.           *)
(***************************************************************************)
C11_DefaultKwargsFreshPerCall ==
    (entry = "run" /\ pc = "validate"
        /\ run_object.kwargs = "DEFAULT_KWARGS") => default_kwargs = {}

(***************************************************************************)
(* C12: the baseline is measured at most once in the life of the process:  *)
(* once it is set, no later execution of the module body and no            *)
(* invocation measures again or overwrites it.                             *)
(***************************************************************************)
C12_BaselineMeasuredOnce ==
    /\ [](rss_reads <= 1)
    /\ [][initial_rss_size # "unset" =>
            /\ initial_rss_size' = initial_rss_size
            /\ rss_reads' = rss_reads]_vars

C12_Witness ==
    /\ loads = 2
    /\ rss_reads = 1
    /\ initial_rss_size = "rss1"
    /\ pc = "done"

(***************************************************************************)
(* C16 as stated: the baseline is measured lazily, by the first operation  *)
(* that needs it: no measurement is taken outside an invocation, in        *)
(* particular not by loading the module.                                   *)
(***************************************************************************)
C16_BaselineMeasuredLazily ==
    [][rss_reads' # rss_reads => entry # "none"]_vars

(***************************************************************************)
(* C16 amended: the baseline is measured eagerly, by the first execution   *)
(* of the module body (when builtins holds none yet): it is there before   *)
(* any invocation, and no invocation measures.                             *)
(***************************************************************************)
C16_BaselineMeasuredAtImport ==
    /\ [](pc # "import" => rss_reads = 1 /\ initial_rss_size = "rss1")
    /\ [][rss_reads' # rss_reads => pc = "import" /\ rss_reads = 0]_vars

C16_Witness ==
    /\ pc = "validate"
    /\ loads = 1
    /\ rss_reads = 1
    /\ initial_rss_size = "rss1"

\* run has issued its request: run_stats is the mapping that was serialized
Transmitted == entry = "run" /\ requests # <<>>

\* what a receiver gets from the body of the last request
Received ==
    AsRunStats(json_loads(decode_utf8(gzip_decompress(
        requests[Len(requests)].data))))

\* a value with every tuple replaced by the list of its items
TupleAsList(v) == IF v.tag = "tuple" THEN [v EXCEPT !.tag = "list"] ELSE v

TuplesAsLists(od) ==
    [i \in 1..Len(od) |->
        [key |-> od[i].key,
         val |-> [f \in DOMAIN od[i].val |->
                    IF f = "codeEvents" THEN TupleAsList(od[i].val[f])
                    ELSE od[i].val[f]]]]

HasTuple(od) ==
    \E i \in 1..Len(od) :
        /\ "codeEvents" \in DOMAIN od[i].val
        /\ od[i].val.codeEvents.tag = "tuple"

====
